---------------------------- MODULE Spec2Model ----------------------------
(***************************************************************************)
(* Alignment-and-playback core of the practice-scoring web client:         *)
(* Score Extractor, Timing Resolver, Tokenizer, Word-Score Aligner         *)
(* (app/page.tsx and lib/speechace.ts) and the Playback Scheduler          *)
(* (playWord / playSegment / stop timer / timeupdate in app/page.tsx).     *)
(*                                                                         *)
(* Time is carried in microseconds so that 10 ms ticks (x 0.01 s), the     *)
(* 20 ms floor and the ms/sec heuristic are all exact integers.            *)
(* Text is a sequence of one-character strings.                            *)
(***************************************************************************)
EXTENDS Integers, Sequences, FiniteSets, TLC

VARIABLES
    pc,            \* phase of the pure pipeline under study
    usedText,      \* reference text handed to buildWordDisplays / tokenizers
    speechace,     \* raw scoring response (four probed paths)
    wordDisplays,  \* result of buildWordDisplays (page)
    tokens,        \* result of tokenizeAndAttach (page)
    libTokens,     \* result of tokenizeAndAttach (lib/speechace.ts)
    scoreList,     \* result of getWordScoreList
    item,          \* one score record handed to the Timing Resolver
    timing         \* timing the resolver attached to it

pureVars == <<pc, usedText, speechace, wordDisplays, tokens, libTokens,
              scoreList, item, timing>>

VARIABLES
    reqs,             \* playWord calls in order of issue, with their position
    playTokenRef,     \* playTokenRef.current
    segmentRef,       \* segmentRef.current : None or Some([endSec, token])
    segmentTimerRef,  \* segmentTimerRef.current : None or Some(timer handle)
    timers,           \* stop timers set by setTimeout and neither cleared nor fired
    audios,           \* the audio elements created so far: src, ready, paused, currentTime
    audioRef,         \* audioRef.current : 0 for null, else the mounted element
    audioUrl,         \* active.audioUrl : None or Some(url id)
    urlFresh,         \* the url is younger than 50 s
    err,              \* active.err
    ttsSpeaking,      \* the sample voice is speaking
    calls             \* calls on audio elements and scheduler writes of the latest step

playVars == <<reqs, playTokenRef, segmentRef, segmentTimerRef, timers, audios,
              audioRef, audioUrl, urlFresh, err, ttsSpeaking, calls>>

vars == <<pureVars, playVars>>

\* A value that may be null/undefined is a sequence of length 0 or 1.
None == << >>
Some(x) == <<x>>

Max(a, b) == IF a >= b THEN a ELSE b
Min(a, b) == IF a <= b THEN a ELSE b

(***************************************************************************)
(* Bounds                                                                  *)
(***************************************************************************)
MaxTokText == 4      \* longest text given to the tokenizers
MaxWords   == 3      \* most words in a text given to the aligner
MaxLongList == 5     \* longest score list of plain records given to the aligner
MaxList    == 3      \* longest score list given to the aligner
MaxPhones  == 2      \* longest phone list given to the Timing Resolver
MaxReq     == 2      \* playWord calls in one run
MaxEl      == 2      \* audio elements mounted in one run

(***************************************************************************)
(* Characters                                                              *)
(***************************************************************************)
Letters == {"a", "b", "A"}
Digits  == {"1"}
Spaces  == {" "}
Apos    == {"'"}
Hyphen  == {"-"}

IsSpace(c) == c \in Spaces
\* [A-Za-z0-9]
IsAlnum(c) == c \in Letters \cup Digits
\* \p{L}, \p{N}
IsL(c) == c \in Letters
IsN(c) == c \in Digits

\* a punctuation class that leaves the apostrophe to the word pattern
IsPagePunctNoApos(c) == ~IsAlnum(c) /\ ~IsSpace(c) /\ c \notin Apos

\* [^A-Za-z0-9\s]
IsPagePunct(c) == ~IsAlnum(c) /\ ~IsSpace(c)
IsLibPunct(c)  == ~IsL(c) /\ ~IsN(c) /\ ~IsSpace(c)
IsLibTail(c)   == IsL(c) \/ IsN(c) \/ c \in Apos \/ c \in Hyphen

InClass(c, cls) ==
    CASE cls = "space"     -> IsSpace(c)
      [] cls = "alnum"     -> IsAlnum(c)
      [] cls = "pagepunct" -> IsPagePunct(c)
      [] cls = "libpunct"  -> IsLibPunct(c)
      [] cls = "libtail"   -> IsLibTail(c)
      [] cls = "N"         -> IsN(c)

\* length of the longest run of characters of one class starting at p (greedy +)
RECURSIVE RunLen(_, _, _)
RunLen(text, p, cls) ==
    IF p > Len(text) THEN 0
    ELSE IF InClass(text[p], cls) THEN 1 + RunLen(text, p + 1, cls)
    ELSE 0

\* a word pattern that also takes an apostrophe with nothing after it
WordMatchLenTrailingApos(text, p) ==
    LET n1 == RunLen(text, p, "alnum")
        q  == p + n1
    IN  IF n1 = 0 THEN 0
        ELSE IF q <= Len(text) /\ text[q] \in Apos
        THEN n1 + 1 + RunLen(text, q + 1, "alnum")
        ELSE n1

\* [A-Za-z0-9]+(?:['’][A-Za-z0-9]+)?  matched at p; 0 when it does not match
WordMatchLen(text, p) ==
    LET n1 == RunLen(text, p, "alnum")
        q  == p + n1
        n2 == IF n1 > 0 /\ q <= Len(text) /\ text[q] \in Apos
              THEN RunLen(text, q + 1, "alnum") ELSE 0
    IN  IF n1 = 0 THEN 0 ELSE IF n2 > 0 THEN n1 + 1 + n2 ELSE n1

\* one attempt of /(\s+)|(word)|([^A-Za-z0-9\s]+)/g at position p; where no
\* alternative matches, exec moves on to the next position
PageMatch(text, p) ==
    LET s == RunLen(text, p, "space")
        w == WordMatchLen(text, p)
        u == RunLen(text, p, "pagepunct")
    IN  IF s > 0 THEN [kind |-> "space", len |-> s]
        ELSE IF w > 0 THEN [kind |-> "word", len |-> w]
        ELSE IF u > 0 THEN [kind |-> "punct", len |-> u]
        ELSE [kind |-> "none", len |-> 0]

\* one step of re.exec for the lib regex, then the two classifying tests
LibMatch(text, p) ==
    LET s == RunLen(text, p, "space")
        u == RunLen(text, p, "libpunct")
        l == IF p <= Len(text) /\ IsL(text[p])
             THEN 1 + RunLen(text, p + 1, "libtail") ELSE 0
        n == RunLen(text, p, "N")
    IN  IF s > 0 THEN [kind |-> "space", len |-> s]
        ELSE IF u > 0 THEN [kind |-> "punct", len |-> u]
        ELSE IF l > 0 THEN [kind |-> "word", len |-> l]
        ELSE IF n > 0 THEN [kind |-> "word", len |-> n]
        ELSE [kind |-> "none", len |-> 0]

\* wordDisplays?.[wi] || null
Attach(wds, wi) == IF wi <= Len(wds) THEN Some(wds[wi]) ELSE None

RECURSIVE PageTokensFrom(_, _, _, _)
PageTokensFrom(text, p, wi, wds) ==
    IF p > Len(text) THEN << >>
    ELSE LET m == PageMatch(text, p)
             t == SubSeq(text, p, p + m.len - 1)
         IN  IF m.kind = "none" THEN PageTokensFrom(text, p + 1, wi, wds)
             ELSE IF m.kind = "word"
             THEN <<[kind |-> "word", text |-> t, attach |-> Attach(wds, wi)]>>
                  \o PageTokensFrom(text, p + m.len, wi + 1, wds)
             ELSE <<[kind |-> m.kind, text |-> t, attach |-> None]>>
                  \o PageTokensFrom(text, p + m.len, wi, wds)

\* app/page.tsx tokenizeAndAttach
tokenizeAndAttach(text, wds) == PageTokensFrom(text, 1, 1, wds)

RECURSIVE LibTokensFrom(_, _, _, _)
LibTokensFrom(text, p, wi, wds) ==
    IF p > Len(text) THEN << >>
    ELSE LET m == LibMatch(text, p)
             t == SubSeq(text, p, p + m.len - 1)
         IN  IF m.kind = "none" THEN LibTokensFrom(text, p + 1, wi, wds)
             ELSE IF m.kind = "word"
             THEN <<[kind |-> "word", text |-> t, attach |-> Attach(wds, wi)]>>
                  \o LibTokensFrom(text, p + m.len, wi + 1, wds)
             ELSE <<[kind |-> m.kind, text |-> t, attach |-> None]>>
                  \o LibTokensFrom(text, p + m.len, wi, wds)

\* lib/speechace.ts tokenizeAndAttach
libTokenizeAndAttach(text, wds) == LibTokensFrom(text, 1, 1, wds)

RECURSIVE ConcatText(_)
ConcatText(toks) ==
    IF toks = << >> THEN << >> ELSE Head(toks).text \o ConcatText(Tail(toks))

WordTokens(toks) == SelectSeq(toks, LAMBDA t : t.kind = "word")

RECURSIVE SeqsUpTo(_, _)
SeqsUpTo(S, n) ==
    IF n = 0 THEN {<< >>}
    ELSE LET prev == SeqsUpTo(S, n - 1)
         IN  prev \cup {Append(s, x) : s \in {t \in prev : Len(t) = n - 1}, x \in S}

(***************************************************************************)
(* Score Extractor (lib/speechace.ts)                                      *)
(***************************************************************************)
\* A probed path holds nothing (null/undefined somewhere on the chain),
\* a non-null value that is not an array, or an array of score records.
Absent     == [t |-> "absent",  v |-> << >>]
NotList    == [t |-> "notlist", v |-> << >>]
ListVal(l) == [t |-> "list",    v |-> l]

\* a ?? b
Coalesce(a, b) == IF a.t # "absent" THEN a ELSE b

getWordScoreList(sp) ==
    LET candidates == Coalesce(sp.ts_ss, Coalesce(sp.ts, Coalesce(sp.ss, sp.top)))
    IN  IF candidates.t = "list" THEN candidates.v ELSE << >>

(***************************************************************************)
(* Timing Resolver                                                         *)
(***************************************************************************)
TickUs  == 10000     \* one extent tick, 0.01 s
FloorUs == 20000     \* minimum width 0.02 s
MsThreshold == 1000  \* n > 1000 => milliseconds

\* Raw start/end field values.  Numbers and numeric strings carry the value
\* in thousandths (v = 1500 is the number 1.5, v = 1500000 the number 1500).
Nullish   == [t |-> "nullish", v |-> 0]
Num(v)    == [t |-> "num", v |-> v]
NumStr(v) == [t |-> "str", v |-> v]
EmptyStr  == [t |-> "emptystr", v |-> 0]
BadStr    == [t |-> "badstr", v |-> 0]
NaNVal    == [t |-> "nan", v |-> 0]
InfVal    == [t |-> "inf", v |-> 0]

\* every finite value is taken as seconds, whatever its size
toNumberSecNoScale(x) ==
    IF x.t = "nullish" THEN None
    ELSE LET finite == x.t \in {"num", "str", "emptystr"}
             n == IF x.t = "emptystr" THEN 0 ELSE x.v
         IN  IF ~finite THEN None ELSE Some(n * 1000)

\* result in microseconds, None for null
toNumberSec(x) ==
    IF x.t = "nullish" THEN None
    ELSE LET finite == x.t \in {"num", "str", "emptystr"}
             n == IF x.t = "emptystr" THEN 0 ELSE x.v
         IN  IF ~finite THEN None
             ELSE IF n > MsThreshold * 1000 THEN Some(n)
             ELSE Some(n * 1000)

\* a ?? b on raw field values
CoalesceRaw(a, b) == IF a.t # "nullish" THEN a ELSE b

\* itemOpt is None when the caller passes null: reading item.start_time throws
timingFromItem(itemOpt) ==
    IF itemOpt = None THEN [threw |-> TRUE, val |-> None]
    ELSE LET it == itemOpt[1]
             s == toNumberSec(CoalesceRaw(it.start_time, it.start))
             e == toNumberSec(CoalesceRaw(it.end_time, it.end))
         IN  IF s = None \/ e = None THEN [threw |-> FALSE, val |-> None]
             ELSE [threw |-> FALSE,
                   val |-> Some([startSec |-> Max(0, s[1]), endSec |-> Max(0, e[1])])]

\* extent is None (not an array) or Some(sequence of integers);
\* an index past the end reads undefined, which is not a number
ExtentAt(ext, k) == IF k <= Len(ext) THEN Some(ext[k]) ELSE None

\* the end is the raw end, without the 20 ms floor
timingFromPhoneExtentsNoFloor(phonesOpt) ==
    IF phonesOpt = None THEN None
    ELSE LET l == phonesOpt[1]
         IN  IF Len(l) < 1 THEN None
             ELSE LET s == l[1].extent
                      e == l[Len(l)].extent
                  IN  IF s = None \/ e = None THEN None
                      ELSE LET start10ms == ExtentAt(s[1], 1)
                               end10ms   == ExtentAt(e[1], 2)
                           IN  IF start10ms = None \/ end10ms = None THEN None
                               ELSE Some([startSec |-> Max(0, start10ms[1] * TickUs),
                                          endSec |-> Max(0, end10ms[1] * TickUs)])

timingFromPhoneExtents(phonesOpt) ==
    IF phonesOpt = None THEN None
    ELSE LET l == phonesOpt[1]
         IN  IF Len(l) < 1 THEN None
             ELSE LET s == l[1].extent
                      e == l[Len(l)].extent
                  IN  IF s = None \/ e = None THEN None
                      ELSE LET start10ms == ExtentAt(s[1], 1)
                               end10ms   == ExtentAt(e[1], 2)
                           IN  IF start10ms = None \/ end10ms = None THEN None
                               ELSE LET startSec == Max(0, start10ms[1] * TickUs)
                                        endSec == Max(startSec + FloorUs, end10ms[1] * TickUs)
                                    IN  Some([startSec |-> startSec, endSec |-> endSec])

(***************************************************************************)
(* Word-Score Aligner (app/page.tsx)                                       *)
(***************************************************************************)
Lookahead == 4

Lower(c) == IF c = "A" THEN "a" ELSE c

RECURSIVE LowerSeq(_)
LowerSeq(w) == IF w = << >> THEN << >> ELSE <<Lower(Head(w))>> \o LowerSeq(Tail(w))

\* lowercase, drop quote characters, drop everything outside [a-z0-9]
normalizeWord(w) == SelectSeq(LowerSeq(w), IsAlnum)

\* usedText.match(/[A-Za-z0-9]+(?:['’][A-Za-z0-9]+)?/g) || []
RECURSIVE WordsFrom(_, _)
WordsFrom(text, p) ==
    IF p > Len(text) THEN << >>
    ELSE LET n == WordMatchLen(text, p)
         IN  IF n = 0 THEN WordsFrom(text, p + 1)
             ELSE <<SubSeq(text, p, p + n - 1)>> \o WordsFrom(text, p + n)

wordsInText(text) == WordsFrom(text, 1)

\* !usedText?.trim()
IsBlank(text) == \A i \in 1..Len(text) : IsSpace(text[i])

\* list[k] with a 0-based index; None past the end
ListAt(list, k) == IF k >= 0 /\ k < Len(list) THEN Some(list[k + 1]) ELSE None

\* a scan that runs to the end of the list instead of the end of the window
RECURSIVE ScanFromToListEnd(_, _, _, _)
ScanFromToListEnd(list, k, hi, norm) ==
    IF k >= Len(list) THEN -1
    ELSE LET candidateWord == normalizeWord(list[k + 1].word)
         IN  IF candidateWord # << >> /\ candidateWord = norm THEN k
             ELSE ScanFromToListEnd(list, k + 1, hi, norm)

\* first k in j .. min(len, j+4)-1 whose normalized word is non-empty and
\* equals norm; -1 when the scan finds none
RECURSIVE ScanFrom(_, _, _, _)
ScanFrom(list, k, hi, norm) ==
    IF k >= hi THEN -1
    ELSE LET candidateWord == normalizeWord(list[k + 1].word)
         IN  IF candidateWord # << >> /\ candidateWord = norm THEN k
             ELSE ScanFrom(list, k + 1, hi, norm)

\* a best-effort guess that goes back to the record before the cursor
FallbackIndexPrevious(j) == Max(0, j - 1)

\* if (!picked) { picked = list[j] || null; pickedIndex = j; }
FallbackIndex(j) == j

\* the cursor falls back to the start of the list
NextCursorRewind(j, pickedIndex) == 0

\* if (pickedIndex >= j) j = pickedIndex + 1
NextCursor(j, pickedIndex) == IF pickedIndex >= j THEN pickedIndex + 1 ELSE j

\* a scan that keeps the last match of the window instead of the first
PickIndexLastMatch(list, j, norm) ==
    LET hi == Min(Len(list), j + Lookahead)
        ms == {k \in j..(hi - 1) : /\ normalizeWord(list[k + 1].word) # << >>
                                   /\ normalizeWord(list[k + 1].word) = norm}
    IN  IF ms = {} THEN j ELSE CHOOSE k \in ms : \A m \in ms : m <= k

\* the index the loop body settles on for word norm with the cursor at j
PickIndex(list, j, norm) ==
    LET m == ScanFrom(list, j, Min(Len(list), j + Lookahead), norm)
    IN  IF m >= 0 THEN m ELSE FallbackIndex(j)

\* quality_score, else quality, else score, else null
QualityOf(pickedOpt) ==
    IF pickedOpt = None THEN None
    ELSE LET r == pickedOpt[1]
         IN  IF r.quality_score # None THEN r.quality_score
             ELSE IF r.quality # None THEN r.quality
             ELSE r.score

PhonesRaw(pickedOpt) ==
    IF pickedOpt = None THEN << >>
    ELSE IF pickedOpt[1].phone_score_list = None THEN << >>
    ELSE pickedOpt[1].phone_score_list[1]

MapPhone(ph) ==
    [phone |-> ph.phone, quality |-> ph.quality_score,
     soundMostLike |-> ph.sound_most_like, extent |-> ph.extent]

RECURSIVE MapPhones(_)
MapPhones(l) ==
    IF l = << >> THEN << >> ELSE <<MapPhone(Head(l))>> \o MapPhones(Tail(l))

\* item-level timing first, phone extents only as a fallback
TimingOfItemFirst(pickedOpt) ==
    LET fromItem == timingFromItem(pickedOpt)
    IN  IF fromItem.threw \/ fromItem.val # None THEN fromItem
        ELSE [threw |-> FALSE,
              val |-> timingFromPhoneExtents(Some(PhonesRaw(pickedOpt)))]

\* timingFromExtent || timingFromItem(picked) || null ; the second operand is
\* evaluated only when the first is null, and throws when picked is null
TimingOf(pickedOpt) ==
    LET timingFromExtent == timingFromPhoneExtents(Some(PhonesRaw(pickedOpt)))
    IN  IF timingFromExtent # None THEN [threw |-> FALSE, val |-> timingFromExtent]
        ELSE timingFromItem(pickedOpt)

\* an iteration that reads the quality at the cursor instead of the picked record
AlignStepQualityAtCursor(words, list, i, j) ==
    LET raw == words[i + 1]
        pickedIndex == PickIndex(list, j, normalizeWord(raw))
        picked == ListAt(list, pickedIndex)
        tm == TimingOf(picked)
    IN  [i |-> i, j |-> j, pickedIndex |-> pickedIndex,
         jNext |-> NextCursor(j, pickedIndex),
         threw |-> tm.threw,
         display |-> [idx |-> i, word |-> raw, quality |-> QualityOf(ListAt(list, j)),
                      phones |-> MapPhones(PhonesRaw(picked)), timing |-> tm.val]]

\* one iteration of the for loop: word i (0-based) with the cursor at j
AlignStep(words, list, i, j) ==
    LET raw == words[i + 1]
        pickedIndex == PickIndex(list, j, normalizeWord(raw))
        picked == ListAt(list, pickedIndex)
        tm == TimingOf(picked)
    IN  [i |-> i, j |-> j, pickedIndex |-> pickedIndex,
         jNext |-> NextCursor(j, pickedIndex),
         threw |-> tm.threw,
         display |-> [idx |-> i, word |-> raw, quality |-> QualityOf(picked),
                      phones |-> MapPhones(PhonesRaw(picked)), timing |-> tm.val]]

\* the iterations the loop performs, in order; it stops at a throwing one
RECURSIVE AlignFrom(_, _, _, _)
AlignFrom(words, list, i, j) ==
    IF i >= Len(words) THEN << >>
    ELSE LET st == AlignStep(words, list, i, j)
         IN  IF st.threw THEN <<st>>
             ELSE <<st>> \o AlignFrom(words, list, i + 1, st.jNext)

AlignSteps(text, sp) ==
    LET list == getWordScoreList(sp)
    IN  IF IsBlank(text) \/ Len(list) = 0 THEN << >>
        ELSE AlignFrom(wordsInText(text), list, 0, 0)

RECURSIVE DisplaysOf(_)
DisplaysOf(steps) ==
    IF steps = << >> THEN << >> ELSE <<Head(steps).display>> \o DisplaysOf(Tail(steps))

\* [threw |-> a TypeError escaped, out |-> the returned list otherwise]
buildWordDisplays(text, sp) ==
    LET steps == AlignSteps(text, sp)
        threw == steps # << >> /\ steps[Len(steps)].threw
    IN  [threw |-> threw, out |-> IF threw THEN << >> ELSE DisplaysOf(steps)]

(***************************************************************************)
(* Inputs                                                                  *)
(***************************************************************************)
Phone(label, q, ext) ==
    [phone |-> label, quality_score |-> q, sound_most_like |-> None, extent |-> ext]

Record(w, qs, q, sc, phones, st, et, s0, e0) ==
    [word |-> w, quality_score |-> qs, quality |-> q, score |-> sc,
     phone_score_list |-> phones,
     start_time |-> st, end_time |-> et, start |-> s0, end |-> e0]

\* "a", quality_score 90, phone extents [0,50] [50,120]
RecA == Record(<<"a">>, Some(90), None, None,
               Some(<<Phone("ax", Some(95), Some(<<0, 50>>)),
                      Phone("t", Some(85), Some(<<50, 120>>))>>),
               Nullish, Nullish, Nullish, Nullish)
\* "b", quality 40, no phone list, start_time/end_time in milliseconds
RecB == Record(<<"b">>, None, Some(40), None, None,
               Num(1500000), Num(2300000), Nullish, Nullish)
\* "A." (normalizes to "a"), score 70, phones without extents, start/end in seconds
RecA2 == Record(<<"A", ".">>, None, None, Some(70),
                Some(<<Phone("ey", None, None)>>),
                Nullish, Nullish, Num(2500), Num(3000))
\* "1", quality_score 10, empty phone list, no timing at all
RecC == Record(<<"1">>, Some(10), None, None, Some(<< >>),
               Nullish, Nullish, Nullish, Nullish)
\* empty word, no quality, one phone whose extent is narrower than the floor
RecE == Record(<< >>, None, None, None,
               Some(<<Phone("s", Some(60), Some(<<300, 300>>))>>),
               Nullish, Nullish, Nullish, Nullish)

Records == {RecA, RecB, RecA2, RecC, RecE}
\* the records of the lists long enough to outrun the lookahead window
PlainRecords == {RecA, RecB}

Vocab == {<<"a">>, <<"b">>, <<"A">>}
Seps  == {<<" ">>, <<".", " ">>}

RECURSIVE Join(_, _)
Join(ws, sep) ==
    IF ws = << >> THEN << >>
    ELSE IF Len(ws) = 1 THEN ws[1]
    ELSE ws[1] \o sep \o Join(Tail(ws), sep)

AlignTexts == {Join(ws, sep) : ws \in SeqsUpTo(Vocab, MaxWords), sep \in Seps}
                \cup {<<" ">>}

TokAlphabet == {"a", "1", "'", "-", " ", "."}

TopOnly(l) == [ts_ss |-> Absent, ts |-> Absent, ss |-> Absent, top |-> ListVal(l)]
NoResponse == [ts_ss |-> Absent, ts |-> Absent, ss |-> Absent, top |-> Absent]

PathVals == {Absent, NotList, ListVal(<< >>), ListVal(<<RecA>>), ListVal(<<RecB, RecA>>)}

Extents == {None, Some(<< >>), Some(<<0, 5>>), Some(<<3, 5>>), Some(<<7, 3>>),
            Some(<<-4, 120>>)}
PhoneLists == {None} \cup
              {Some(l) : l \in SeqsUpTo({Phone("p", None, e) : e \in Extents}, MaxPhones)}
RawVals == {Nullish, Num(-500), Num(0), Num(1500), Num(2300), Num(1000000),
            Num(1500000), NumStr(2300000), NaNVal, InfVal, BadStr, EmptyStr}
Items == {Record(<<"a">>, None, None, None, pl, st, et, s0, e0) :
              pl \in PhoneLists, st \in RawVals, et \in RawVals,
              s0 \in {Nullish, Num(2000)}, e0 \in {Nullish, Num(1000)}}

(***************************************************************************)
(* Playback Scheduler (app/page.tsx)                                       *)
(*                                                                         *)
(* Every handler runs to its next await in one step.  A scoring result     *)
(* with an audioKey is present throughout (the score route always returns  *)
(* one), and a mounted <audio> always has a non-empty src (it is rendered  *)
(* only when audioUrl is set), so the !a.src branch is never taken.        *)
(***************************************************************************)
Duration   == 2000000   \* length of the recording, microseconds
PreRollUs  == 50000     \* playWord starts 0.05 s early
SegFloorUs == 20000     \* playWord keeps end >= start + 0.02 s
MinTimerMs == 80
SlackMs    == 60

PlayTimings == {None,
                Some([startSec |-> 500000, endSec |-> 1500000]),
                Some([startSec |-> 0, endSec |-> 500000]),
                Some([startSec |-> 1550000, endSec |-> 1500000])}
PosGrid == {500000, 1500000, Duration}

NoElement == [exists |-> FALSE, src |-> 0, ready |-> FALSE, paused |-> TRUE,
              currentTime |-> 0]
NewElement(url) == [exists |-> TRUE, src |-> url, ready |-> FALSE, paused |-> TRUE,
                    currentTime |-> 0]

\* the mutable scheduler state a handler works on
Cur == [reqs |-> reqs, playTokenRef |-> playTokenRef, segmentRef |-> segmentRef,
        segmentTimerRef |-> segmentTimerRef, timers |-> timers, audios |-> audios,
        audioUrl |-> audioUrl, urlFresh |-> urlFresh, err |-> err,
        ttsSpeaking |-> ttsSpeaking, calls |-> << >>]

Commit(s) ==
    /\ reqs' = s.reqs
    /\ playTokenRef' = s.playTokenRef
    /\ segmentRef' = s.segmentRef
    /\ segmentTimerRef' = s.segmentTimerRef
    /\ timers' = s.timers
    /\ audios' = s.audios
    /\ audioUrl' = s.audioUrl
    /\ urlFresh' = s.urlFresh
    /\ err' = s.err
    /\ ttsSpeaking' = s.ttsSpeaking
    /\ calls' = s.calls
    /\ UNCHANGED pureVars

\* a call on audio element el: by request rid (0: none), holding token tok
Called(s, op, via, rid, tok, el) ==
    [s EXCEPT !.calls = Append(@, [op |-> op, via |-> via, by |-> rid,
                                   token |-> tok, el |-> el])]

AudioPause(s, via, rid, tok, el) ==
    [Called(s, "pause", via, rid, tok, el) EXCEPT !.audios[el].paused = TRUE]

\* the media load algorithm: pauses, rewinds and drops the metadata
AudioLoad(s, via, rid, tok, el) ==
    [Called(s, "load", via, rid, tok, el) EXCEPT
        !.audios[el].ready = FALSE,
        !.audios[el].paused = TRUE,
        !.audios[el].currentTime = 0]

AudioSetSrc(s, via, rid, tok, el, url) ==
    [Called(s, "src", via, rid, tok, el) EXCEPT !.audios[el].src = url]

AudioSeek(s, via, rid, tok, el, t) ==
    [Called(s, "seek", via, rid, tok, el) EXCEPT !.audios[el].currentTime = Min(t, Duration)]

AudioPlay(s, via, rid, tok, el) ==
    [Called(s, "play", via, rid, tok, el) EXCEPT !.audios[el].paused = FALSE]

Finish(s, r, how) == [s EXCEPT !.reqs[r].pc = "done", !.reqs[r].outcome = how]

\* reqs[r].timer follows the stop timer request r armed:
\* "none", "armed", "cleared" (clearTimeout), "fired" (paused), "inert" (fired, no effect)
RECURSIVE MarkReqs(_, _, _, _)
MarkReqs(rs, ts, how, r) ==
    IF r > Len(rs) THEN rs
    ELSE MarkReqs(IF \E t \in ts : t.rid = r THEN [rs EXCEPT ![r].timer = how] ELSE rs,
                  ts, how, r + 1)

MarkTimers(s, ts, how) ==
    [s EXCEPT !.reqs = MarkReqs(@, ts, how, 1)]

\* sets the handle to null and forgets to clearTimeout
stopSegmentTimerNoClear(s) ==
    IF s.segmentTimerRef # None
    THEN [s EXCEPT !.segmentTimerRef = None]
    ELSE s

stopSegmentTimer(s) ==
    IF s.segmentTimerRef # None
    THEN LET gone == {t \in s.timers : t.id = s.segmentTimerRef[1]}
         IN  [MarkTimers(s, gone, "cleared") EXCEPT
                  !.timers = @ \ gone,
                  !.segmentTimerRef = None]
    ELSE s

stopTts(s) == [s EXCEPT !.ttsSpeaking = FALSE]

\* the interval length alone, without the slack
TimerMsNoSlack(startSec, endSec) ==
    Max(MinTimerMs, (endSec - startSec + 500) \div 1000)

\* Math.max(80, Math.round((endSec - startSec) * 1000) + 60)
TimerMs(startSec, endSec) ==
    Max(MinTimerMs, ((endSec - startSec + 500) \div 1000) + SlackMs)

\* starts playback before it seeks
seekPlayArmPlayFirst(s, r) ==
    LET q  == s.reqs[r]
        s1 == AudioPlay(s, "doSeekPlay", r, q.token, q.a)
        s2 == AudioSeek(s1, "doSeekPlay", r, q.token, q.a, Max(0, q.startSec))
        s3 == [Called(s2, "segment", "doSeekPlay", r, q.token, q.a) EXCEPT
                  !.segmentRef = Some([endSec |-> q.endSec, token |-> q.token])]
        tm == [id |-> q.token, token |-> q.token, rid |-> r, el |-> q.a,
               ms |-> TimerMs(q.startSec, q.endSec)]
        s4 == [Called(s3, "arm", "doSeekPlay", r, q.token, q.a) EXCEPT
                  !.timers = @ \cup {tm},
                  !.segmentTimerRef = Some(tm.id),
                  !.reqs[r].timer = "armed"]
    IN  Finish(s4, r, "played")

\* doSeekPlay past its cancellation check: seek, record the segment, play,
\* arm the stop timer; "segment" and "arm" log the two writes among the calls
seekPlayArm(s, r) ==
    LET q  == s.reqs[r]
        s1 == AudioSeek(s, "doSeekPlay", r, q.token, q.a, Max(0, q.startSec))
        s2 == [Called(s1, "segment", "doSeekPlay", r, q.token, q.a) EXCEPT
                  !.segmentRef = Some([endSec |-> q.endSec, token |-> q.token])]
        s3 == AudioPlay(s2, "doSeekPlay", r, q.token, q.a)
        tm == [id |-> q.token, token |-> q.token, rid |-> r, el |-> q.a,
               ms |-> TimerMs(q.startSec, q.endSec)]
        s4 == [Called(s3, "arm", "doSeekPlay", r, q.token, q.a) EXCEPT
                  !.timers = @ \cup {tm},
                  !.segmentTimerRef = Some(tm.id),
                  !.reqs[r].timer = "armed"]
    IN  Finish(s4, r, "played")

\* doSeekPlay without the cancellation check
doSeekPlayNoCheck(s, r) == seekPlayArm(s, r)

\* doSeekPlay that writes the segment record before its cancellation check
doSeekPlayRecordsFirst(s, r) ==
    LET q  == s.reqs[r]
        s1 == [s EXCEPT !.segmentRef = Some([endSec |-> q.endSec, token |-> q.token])]
    IN  IF q.token # s.playTokenRef THEN Finish(s1, r, "stale")
        ELSE seekPlayArm(s, r)

\* doSeekPlay of request r
doSeekPlay(s, r) ==
    IF s.reqs[r].token # s.playTokenRef THEN Finish(s, r, "stale")
    ELSE seekPlayArm(s, r)

\* seeks and plays at once, metadata or not
whenMetadataNoWait(s, r, token, a) == doSeekPlay(s, r)

\* the tail of playSegment: wait for loadedmetadata when readyState < 1
whenMetadata(s, r, token, a) ==
    IF ~s.audios[a].ready
    THEN [AudioLoad(s, "playSegment", r, token, a) EXCEPT
             !.reqs[r].pc = "meta", !.reqs[r].waited = TRUE]
    ELSE doSeekPlay(s, r)

\* a playSegment that leaves the segment record in place
playSegmentKeepsSegment(s, r, startSec, endSec, a) ==
    IF a = 0 THEN Finish(s, r, "noaudio")
    ELSE LET s1 == stopSegmentTimer(s)
             token == s1.playTokenRef + 1
             s2 == [s1 EXCEPT !.playTokenRef = token,
                              !.reqs[r].token = token,
                              !.reqs[r].a = a,
                              !.reqs[r].startSec = startSec,
                              !.reqs[r].endSec = endSec]
             s3 == AudioPause(s2, "playSegment", r, token, a)
         IN  whenMetadata(s3, r, token, a)

\* playSegment(startSec, endSec) of request r, up to its first real suspension
playSegment(s, r, startSec, endSec, a) ==
    IF a = 0 THEN Finish(s, r, "noaudio")
    ELSE LET s1 == [stopSegmentTimer(s) EXCEPT !.segmentRef = None]
             token == s1.playTokenRef + 1
             s2 == [s1 EXCEPT !.playTokenRef = token,
                              !.reqs[r].token = token,
                              !.reqs[r].a = a,
                              !.reqs[r].startSec = startSec,
                              !.reqs[r].endSec = endSec]
             s3 == AudioPause(s2, "playSegment", r, token, a)
         IN  whenMetadata(s3, r, token, a)

\* playWord after ensureFreshAudioUrl returned a url
playWordRest(s, r, a) ==
    LET s1 == stopSegmentTimer(stopTts(s))
        t  == s1.reqs[r].w
    IN  IF t = None
        THEN Finish([s1 EXCEPT !.err = "notiming", !.reqs[r].signalled = TRUE], r, "notiming")
        ELSE LET start == Max(0, t[1].startSec - PreRollUs)
                 end   == Max(start + SegFloorUs, t[1].endSec)
             IN  playSegment(s1, r, start, end, a)

NewReq(w) == [pc |-> "new", w |-> w, cu |-> audioUrl, token |-> 0, a |-> 0,
              startSec |-> 0, endSec |-> 0, signalled |-> FALSE, outcome |-> "none",
              timer |-> "none", waited |-> FALSE, stop |-> "none"]

\* onClick: playWord(w) up to the await inside ensureFreshAudioUrl
PlayWord(w) ==
    /\ Len(reqs) < MaxReq
    /\ LET r  == Len(reqs) + 1
           s0 == [Cur EXCEPT !.reqs = Append(@, NewReq(w))]
       IN  IF audioUrl # None /\ urlFresh
           THEN Commit(playWordRest(s0, r, audioRef))
           ELSE Commit([s0 EXCEPT !.reqs[r].pc = "fetch"])
    /\ UNCHANGED audioRef

\* the fetch of /api/audio-url of request r completes
\*   "ok": a url came back;  "nourl": the answer has no url;  "throw": it failed
FetchDone(r, outcome) ==
    /\ r \in DOMAIN reqs
    /\ reqs[r].pc = "fetch"
    /\ CASE outcome = "ok" ->
              LET s1 == [Cur EXCEPT !.audioUrl = Some(r), !.urlFresh = TRUE]
                  s2 == IF audioRef # 0
                        THEN AudioLoad(AudioSetSrc(s1, "fetch", r, 0, audioRef, r),
                                       "fetch", r, 0, audioRef)
                        ELSE s1
              IN  Commit(playWordRest(s2, r, audioRef))
         [] outcome = "nourl" ->
              Commit(Finish([Cur EXCEPT !.audioUrl = None, !.urlFresh = FALSE], r, "nourl"))
         [] outcome = "throw" ->
              IF reqs[r].cu = None THEN Commit(Finish(Cur, r, "nourl"))
              ELSE Commit(playWordRest(Cur, r, audioRef))
    /\ UNCHANGED audioRef

\* the requests waiting on element e resume in the order they subscribed
RECURSIVE ResumeWaiters(_, _, _)
ResumeWaiters(s, e, r) ==
    IF r > Len(s.reqs) THEN s
    ELSE IF s.reqs[r].pc = "meta" /\ s.reqs[r].a = e
         THEN ResumeWaiters(doSeekPlay(s, r), e, r + 1)
         ELSE ResumeWaiters(s, e, r + 1)

\* loadedmetadata on element e
MetaReady(e) ==
    /\ audios[e].exists
    /\ ~audios[e].ready
    /\ Commit(ResumeWaiters([Cur EXCEPT !.audios[e].ready = TRUE], e, 1))
    /\ UNCHANGED audioRef

\* a stop timer that pauses but leaves the segment record and the handle
TimerFireKeepsSegment(id) ==
    /\ \E x \in timers : x.id = id
    /\ LET t  == CHOOSE x \in timers : x.id = id
           s1 == [Cur EXCEPT !.timers = @ \ {t}]
       IN  IF s1.segmentRef = None \/ s1.segmentRef[1].token # t.token
           THEN Commit(MarkTimers(s1, {t}, "inert"))
           ELSE Commit(AudioPause(MarkTimers(s1, {t}, "fired"), "timer", t.rid, t.token, t.el))
    /\ UNCHANGED audioRef

\* the stop timer with handle id is due
TimerFire(id) ==
    /\ \E x \in timers : x.id = id
    /\ LET t  == CHOOSE x \in timers : x.id = id
           s1 == [Cur EXCEPT !.timers = @ \ {t}]
       IN  IF s1.segmentRef = None \/ s1.segmentRef[1].token # t.token
           THEN Commit(MarkTimers(s1, {t}, "inert"))
           ELSE Commit([AudioPause(MarkTimers(s1, {t}, "fired"), "timer", t.rid, t.token, t.el)
                            EXCEPT !.segmentRef = None, !.segmentTimerRef = None])
    /\ UNCHANGED audioRef

\* onTime, subscribed on the mounted element
onTime(s, e) ==
    IF s.segmentRef = None THEN s
    ELSE IF s.playTokenRef # s.segmentRef[1].token THEN s
    ELSE IF s.audios[e].currentTime >= s.segmentRef[1].endSec
         THEN stopSegmentTimer(
                [AudioPause(s, "onTime", 0, s.segmentRef[1].token, e) EXCEPT
                     !.segmentRef = None])
         ELSE s

\* playback of element e advances to position p and timeupdate is dispatched
TimeUpdate(e, p) ==
    /\ audios[e].exists
    /\ audios[e].ready
    /\ ~audios[e].paused
    /\ p > audios[e].currentTime
    /\ LET s1 == [Cur EXCEPT !.audios[e].currentTime = p,
                             !.audios[e].paused = (p >= Duration)]
       IN  Commit(IF e = audioRef THEN onTime(s1, e) ELSE s1)
    /\ UNCHANGED audioRef

\* the url is now older than 50 s
Expire ==
    /\ urlFresh
    /\ Commit([Cur EXCEPT !.urlFresh = FALSE])
    /\ UNCHANGED audioRef

\* React commits: <audio> exists exactly when audioUrl is set; an element
\* taken out of the document is paused by the browser
Render ==
    /\ (audioUrl = None) # (audioRef = 0)
    /\ IF audioUrl = None
       THEN /\ audioRef' = 0
            /\ Commit([Cur EXCEPT !.audios[audioRef].paused = TRUE])
       ELSE /\ \E e \in 1..MaxEl :
                /\ ~audios[e].exists
                /\ \A d \in 1..(e - 1) : audios[d].exists
                /\ audioRef' = e
                /\ Commit([Cur EXCEPT !.audios[e] = NewElement(audioUrl[1])])

\* toggleTts(text) with the mounted element a (0: none)
toggleTtsStep(s, a) ==
    IF s.ttsSpeaking THEN stopTts(s)
    ELSE LET s1 == IF a # 0 THEN AudioPause(s, "tts", 0, 0, a) ELSE s
             s2 == [stopSegmentTimer(s1) EXCEPT !.segmentRef = None]
         IN  [s2 EXCEPT !.ttsSpeaking = TRUE]

toggleTts ==
    /\ Commit(toggleTtsStep(Cur, audioRef))
    /\ UNCHANGED audioRef

\* u.onend / u.onerror
TtsEnd ==
    /\ ttsSpeaking
    /\ Commit([Cur EXCEPT !.ttsSpeaking = FALSE])
    /\ UNCHANGED audioRef

\* resetRunState(task) with the mounted element a (0: none)
resetRunState(s, a) ==
    LET s1 == [s EXCEPT !.audioUrl = None, !.urlFresh = FALSE, !.err = "none"]
        s2 == [stopSegmentTimer(s1) EXCEPT !.segmentRef = None]
        s3 == IF a # 0 THEN AudioPause(s2, "reset", 0, 0, a) ELSE s2
    IN  stopTts(s3)

\* reqs[r].stop remembers the stop from outside that request r was issued
\* before: "none", "tts" (toggleTts started the sample voice), "reset"
RECURSIVE StopReqs(_, _, _)
StopReqs(rs, how, r) ==
    IF r > Len(rs) THEN rs
    ELSE StopReqs(IF rs[r].stop = "reset" THEN rs ELSE [rs EXCEPT ![r].stop = how],
                  how, r + 1)

MarkStopped(s, how) == [s EXCEPT !.reqs = StopReqs(@, how, 1)]

\* resetRunState has run, so result is null: no word can be clicked until a
\* new result arrives, which ends the run under study
ResultCleared == \E r \in DOMAIN reqs : reqs[r].stop = "reset"

\* a click on a word of the result that is on display
PlayWordOfResult(w) ==
    /\ ~ResultCleared
    /\ PlayWord(w)

\* startRec / scoreUploadedFile / a new file chosen, after a playback request
ResetRunState ==
    /\ Len(reqs) >= 1
    /\ Commit(MarkStopped(resetRunState(Cur, audioRef), "reset"))
    /\ UNCHANGED audioRef

\* toggleTts, where starting the sample voice counts as a stop from outside
ToggleTtsStop ==
    /\ Commit(IF ttsSpeaking THEN toggleTtsStep(Cur, audioRef)
              ELSE MarkStopped(toggleTtsStep(Cur, audioRef), "tts"))
    /\ UNCHANGED audioRef

PlayInit ==
    /\ reqs = << >>
    /\ playTokenRef = 0
    /\ segmentRef = None
    /\ segmentTimerRef = None
    /\ timers = {}
    /\ audios = [e \in 1..MaxEl |-> IF e = 1 THEN NewElement(0) ELSE NoElement]
    /\ audioRef = 1
    /\ audioUrl = Some(0)
    /\ urlFresh = TRUE
    /\ err = "none"
    /\ ttsSpeaking = FALSE
    /\ calls = << >>

(***************************************************************************)
(* Pure pipelines as state machines                                        *)
(***************************************************************************)
PureDefault ==
    /\ PlayInit
    /\ pc = "start"
    /\ wordDisplays = << >>
    /\ tokens = << >>
    /\ libTokens = << >>
    /\ scoreList = << >>
    /\ timing = None

\* --- Tokenizer: both tokenizers over the same text
InitTok ==
    /\ PureDefault
    /\ usedText \in SeqsUpTo(TokAlphabet, MaxTokText)
    /\ speechace = NoResponse
    /\ item = RecC

TokenizePage ==
    /\ pc = "start"
    /\ tokens' = tokenizeAndAttach(usedText, wordDisplays)
    /\ pc' = "page"
    /\ UNCHANGED <<usedText, speechace, wordDisplays, libTokens, scoreList, item, timing>>
    /\ UNCHANGED playVars

TokenizeLib ==
    /\ pc = "page"
    /\ libTokens' = libTokenizeAndAttach(usedText, wordDisplays)
    /\ pc' = "done"
    /\ UNCHANGED <<usedText, speechace, wordDisplays, tokens, scoreList, item, timing>>
    /\ UNCHANGED playVars

NextTok == TokenizePage \/ TokenizeLib

\* --- Aligner: the wordDisplays memo, then the tokens memo
InitAlign ==
    /\ PureDefault
    /\ usedText \in AlignTexts
    /\ speechace \in {TopOnly(l) : l \in SeqsUpTo(Records, MaxList)
                                         \cup SeqsUpTo(PlainRecords, MaxLongList)}
    /\ item = RecC

BuildWordDisplays ==
    /\ pc = "start"
    /\ LET r == buildWordDisplays(usedText, speechace)
       IN  /\ wordDisplays' = r.out
           /\ pc' = IF r.threw THEN "threw" ELSE "built"
    /\ UNCHANGED <<usedText, speechace, tokens, libTokens, scoreList, item, timing>>
    /\ UNCHANGED playVars

TokenizeAndAttach ==
    /\ pc = "built"
    /\ tokens' = tokenizeAndAttach(usedText, wordDisplays)
    /\ pc' = "tokenized"
    /\ UNCHANGED <<usedText, speechace, wordDisplays, libTokens, scoreList, item, timing>>
    /\ UNCHANGED playVars

NextAlign == BuildWordDisplays \/ TokenizeAndAttach

\* --- Timing Resolver: the timing buildWordDisplays attaches for one record
InitTiming ==
    /\ PureDefault
    /\ usedText = << >>
    /\ speechace = NoResponse
    /\ item \in Items

ResolveTiming ==
    /\ pc = "start"
    /\ timing' = TimingOf(Some(item)).val
    /\ pc' = "done"
    /\ UNCHANGED <<usedText, speechace, wordDisplays, tokens, libTokens, scoreList, item>>
    /\ UNCHANGED playVars

NextTiming == ResolveTiming

\* --- Score Extractor
InitExtract ==
    /\ PureDefault
    /\ usedText = << >>
    /\ speechace \in [ts_ss : PathVals, ts : PathVals, ss : PathVals, top : PathVals]
    /\ item = RecC

ExtractScoreList ==
    /\ pc = "start"
    /\ scoreList' = getWordScoreList(speechace)
    /\ pc' = "done"
    /\ UNCHANGED <<usedText, speechace, wordDisplays, tokens, libTokens, item, timing>>
    /\ UNCHANGED playVars

NextExtract == ExtractScoreList

\* --- Scheduler
InitPlay ==
    /\ PlayInit
    /\ pc = "play"
    /\ usedText = << >>
    /\ speechace = NoResponse
    /\ wordDisplays = << >>
    /\ tokens = << >>
    /\ libTokens = << >>
    /\ scoreList = << >>
    /\ item = RecC
    /\ timing = None

NextPlay ==
    \/ \E w \in PlayTimings : PlayWord(w)
    \/ \E r \in 1..MaxReq, o \in {"ok", "nourl", "throw"} : FetchDone(r, o)
    \/ \E e \in 1..MaxEl : MetaReady(e)
    \/ \E id \in 1..MaxReq : TimerFire(id)
    \/ \E e \in 1..MaxEl, p \in PosGrid : TimeUpdate(e, p)
    \/ Expire
    \/ Render
    \/ TtsEnd
    \/ toggleTts

Spec        == InitPlay /\ [][NextPlay]_vars
SpecTok     == InitTok /\ [][NextTok]_vars
SpecAlign   == InitAlign /\ [][NextAlign]_vars
SpecTiming  == InitTiming /\ [][NextTiming]_vars
SpecExtract == InitExtract /\ [][NextExtract]_vars

\* timers that are due fire, and a playing element keeps dispatching timeupdate
SpecFair ==
    /\ InitPlay
    /\ [][NextPlay]_vars
    /\ WF_vars(\E id \in 1..MaxReq : TimerFire(id))
    /\ WF_vars(\E e \in 1..MaxEl, p \in PosGrid : TimeUpdate(e, p))

\* the scheduler with the stops from outside: a reset, the sample voice
NextStop ==
    \/ \E w \in PlayTimings : PlayWordOfResult(w)
    \/ \E r \in 1..MaxReq, o \in {"ok", "nourl", "throw"} : FetchDone(r, o)
    \/ \E e \in 1..MaxEl : MetaReady(e)
    \/ \E id \in 1..MaxReq : TimerFire(id)
    \/ \E e \in 1..MaxEl, p \in PosGrid : TimeUpdate(e, p)
    \/ Expire
    \/ Render
    \/ TtsEnd
    \/ ToggleTtsStop
    \/ ResetRunState

SpecStop == InitPlay /\ [][NextStop]_vars

(***************************************************************************)
(* Properties                                                              *)
(***************************************************************************)
Built == pc \in {"built", "tokenized"}
Returned == pc \in {"built", "tokenized", "threw"}
TheList == getWordScoreList(speechace)
NullDisplay(d) == d.quality = None /\ d.phones = << >> /\ d.timing = None

\* C1: for every text and every score list, buildWordDisplays returns exactly
\* one WordDisplay per word token of tokenizeAndAttach for the same text,
\* with idx equal to the word's ordinal.
C1_OneDisplayPerWordToken ==
    Returned =>
        /\ pc # "threw"
        /\ Len(wordDisplays) = Len(WordTokens(tokenizeAndAttach(usedText, wordDisplays)))
        /\ \A i \in 1..Len(wordDisplays) : wordDisplays[i].idx = i - 1

\* C2: when the cursor has reached the end of a non-empty score list while
\* words remain, buildWordDisplays raises no error and gives every remaining
\* word a WordDisplay with quality null, no phones and timing null.
C2_ExhaustedCursorGivesNullDisplay ==
    (Returned /\ Len(TheList) > 0 /\ ~IsBlank(usedText)) =>
        /\ pc # "threw"
        /\ Len(wordDisplays) = Len(wordsInText(usedText))
        /\ \A i \in 1..Len(wordDisplays) :
              AlignSteps(usedText, speechace)[i].j >= Len(TheList)
                  => NullDisplay(wordDisplays[i])

\* r has been superseded: a request issued after it is already in the scheduler
Superseded(r) == \E n \in DOMAIN reqs : n > r /\ reqs[n].token > 0

\* C3: once a newer playback request has been issued, an older request makes
\* no call on the audio element (no source change or reload, seek, play, pause).
C3_SupersededRequestIsInert ==
    \A i \in DOMAIN calls : calls[i].by # 0 => ~Superseded(calls[i].by)

\* C4: at most one stop timer is pending, a pending stop timer belongs to the
\* latest playSegment call, and a stop timer that pauses the audio is the one
\* of the latest playSegment call.
C4_OnlyLatestStopTimerTakesEffect ==
    /\ Cardinality(timers) <= 1
    /\ \A t \in timers : t.token = playTokenRef
    /\ \A i \in DOMAIN calls : calls[i].via = "timer" => calls[i].token = playTokenRef

\* playSegment(A), then playSegment(B) while A's timer was pending: A's timer
\* was cleared and B's timer paused the audio
C4_Witness ==
    /\ Len(reqs) >= 2
    /\ reqs[1].token = 1 /\ reqs[1].timer = "cleared"
    /\ reqs[2].token = 2 /\ reqs[2].timer = "fired"
    /\ \E i \in DOMAIN calls : calls[i].via = "timer" /\ calls[i].by = 2

\* C5: a request issued later always preempts an earlier one: of two requests
\* that entered the scheduler, the later issued one holds the later token.
C5_LaterRequestPreempts ==
    \A a, b \in DOMAIN reqs :
        (a < b /\ reqs[a].token > 0 /\ reqs[b].token > 0) => reqs[a].token < reqs[b].token

\* C6: every playWord call for a word without timing sets the 'no timing'
\* status and makes no seek and no play call.
C6_UntimedWordSignalsFailure ==
    /\ \A r \in DOMAIN reqs :
          (reqs[r].w = None /\ reqs[r].pc = "done") => reqs[r].signalled
    /\ \A i \in DOMAIN calls :
          (calls[i].by # 0 /\ reqs[calls[i].by].w = None)
              => calls[i].op \notin {"seek", "play"}

\* C7: for both tokenizers, the token texts concatenated in order are the
\* input text.
C7_TokensReconstructText ==
    /\ pc \in {"page", "done"} => ConcatText(tokens) = usedText
    /\ pc = "done" => ConcatText(libTokens) = usedText

HasApos(t) == \E i \in DOMAIN t : t[i] \in Apos

\* both tokenizers ran on a text with a contraction and something else, and
\* they split it differently
C7_Witness ==
    /\ pc = "done"
    /\ \E i \in DOMAIN tokens : tokens[i].kind = "word" /\ HasApos(tokens[i].text)
    /\ \E i \in DOMAIN tokens : tokens[i].kind = "punct"
    /\ tokens # libTokens

\* C8: every non-null timing the resolver attaches satisfies
\* 0 <= startSec < endSec.
C8_TimingIsProperInterval ==
    (pc = "done" /\ timing # None) =>
        (0 <= timing[1].startSec /\ timing[1].startSec < timing[1].endSec)

\* the first probed path, in order, that holds a list
FirstList(sp) ==
    IF sp.ts_ss.t = "list" THEN sp.ts_ss.v
    ELSE IF sp.ts.t = "list" THEN sp.ts.v
    ELSE IF sp.ss.t = "list" THEN sp.ss.v
    ELSE IF sp.top.t = "list" THEN sp.top.v
    ELSE << >>

\* C9: getWordScoreList returns the first probed path that is a list, also
\* when an earlier path holds a non-list value, and the empty list when no
\* path holds a list.
C9_FirstListPathWins ==
    pc = "done" => scoreList = FirstList(speechace)

\* record r is the single source of display d
FromRecord(d, r) ==
    /\ d.quality = QualityOf(Some(r))
    /\ d.phones = MapPhones(PhonesRaw(Some(r)))
    /\ d.timing = TimingOf(Some(r)).val

\* C10: a WordDisplay that carries a quality, phones or a timing takes all
\* three from one record of the input score list.
C10_DisplayComesFromOneRecord ==
    Built =>
        \A i \in 1..Len(wordDisplays) :
            ~NullDisplay(wordDisplays[i]) =>
                \E k \in 1..Len(TheList) : FromRecord(wordDisplays[i], TheList[k])

\* two words were attached to different records, the second one by skipping
\* ahead of the cursor
C10_Witness ==
    /\ Built
    /\ Len(wordDisplays) >= 2
    /\ wordDisplays[1].quality # None
    /\ wordDisplays[2].timing # None
    /\ wordDisplays[1].quality # wordDisplays[2].quality
    /\ AlignSteps(usedText, speechace)[2].pickedIndex > AlignSteps(usedText, speechace)[2].j

\* the score list and the words of the text agree one to one
ExactMatch ==
    LET words == wordsInText(usedText)
    IN  /\ Len(TheList) = Len(words)
        /\ \A i \in 1..Len(words) :
              normalizeWord(TheList[i].word) = normalizeWord(words[i])

\* C12: when the score list has as many records as the text has word tokens
\* and record i normalizes to the same word as word token i for every i,
\* buildWordDisplays picks record i for word i and the tokenizer attaches that
\* display to word token i, also when a word occurs several times.
C12_ExactMatchAttachesInOrder ==
    (Returned /\ ExactMatch) =>
        /\ Built
        /\ Len(wordDisplays) = Len(TheList)
        /\ \A i \in 1..Len(wordDisplays) :
              /\ AlignSteps(usedText, speechace)[i].pickedIndex = i - 1
              /\ FromRecord(wordDisplays[i], TheList[i])
        /\ pc = "tokenized" =>
              /\ Len(WordTokens(tokens)) = Len(TheList)
              /\ \A i \in 1..Len(TheList) :
                    /\ WordTokens(tokens)[i].attach = Some(wordDisplays[i])
                    /\ normalizeWord(WordTokens(tokens)[i].text)
                          = normalizeWord(TheList[i].word)

\* the same normalized word twice, matched by two different records
C12_Witness ==
    /\ pc = "tokenized"
    /\ ExactMatch
    /\ Len(TheList) >= 2
    /\ normalizeWord(TheList[1].word) = normalizeWord(TheList[2].word)
    /\ WordTokens(tokens)[1].attach # WordTokens(tokens)[2].attach
    /\ WordTokens(tokens)[2].attach[1].timing # None

\* the record's phone list yields an extent interval: it is a non-empty list,
\* the first phone's extent has a first entry and the last phone's a second
HasPhoneExtent(r) ==
    /\ r.phone_score_list # None
    /\ Len(r.phone_score_list[1]) >= 1
    /\ LET l == r.phone_score_list[1]
       IN  /\ l[1].extent # None
           /\ l[Len(l)].extent # None
           /\ Len(l[1].extent[1]) >= 1
           /\ Len(l[Len(l)].extent[1]) >= 2

\* C20: the timing of an attached record is the phone-extent interval
\* whenever its phone list yields one, whatever the item-level fields hold;
\* it is the item-level timing only when there is no phone-extent interval;
\* and it is null exactly when neither is available.
C20_PhoneExtentTimingHasPriority ==
    pc = "done" =>
        LET fromItem == timingFromItem(Some(item)).val
        IN  /\ HasPhoneExtent(item) =>
                  /\ timing # None
                  /\ timing = timingFromPhoneExtents(item.phone_score_list)
            /\ ~HasPhoneExtent(item) => timing = fromItem
            /\ timing = None <=> (~HasPhoneExtent(item) /\ fromItem = None)

\* both sources are available and disagree; the phone extents were taken
C20_Witness ==
    /\ pc = "done"
    /\ HasPhoneExtent(item)
    /\ timingFromItem(Some(item)).val # None
    /\ timingFromItem(Some(item)).val # timing

\* C13: a request that resumes from a suspension point after a newer
\* playSegment call took the generation token ends without effect: every seek,
\* play, segment write and timer arming is made by the holder of the current
\* token, and a request that ended stale has no timer, no segment record and
\* made no call.
C13_StaleResumeAbortsSilently ==
    /\ \A i \in DOMAIN calls :
          calls[i].via = "doSeekPlay" => calls[i].token = playTokenRef
    /\ \A r \in DOMAIN reqs :
          reqs[r].outcome = "stale" =>
              /\ reqs[r].timer = "none"
              /\ \A t \in timers : t.rid # r
              /\ segmentRef # None => segmentRef[1].token # reqs[r].token
              /\ \A i \in DOMAIN calls :
                    calls[i].by = r => calls[i].via # "doSeekPlay"

\* a request waited for the metadata, a newer one took the token, and the
\* older one resumed and ended stale
C13_Witness ==
    \E r \in DOMAIN reqs :
        /\ reqs[r].outcome = "stale"
        /\ reqs[r].waited
        /\ reqs[r].token < playTokenRef

\* C14: the step in which a request enters playSegment with an audio element
\* mints the next generation token, leaves no stop timer and no segment
\* record of an earlier token, and pauses the element before anything else
\* is done to it; the element plays afterwards only if this very request
\* started it.
C14_PlaySegmentPreemptsAtOnce ==
    [][\A r \in 1..MaxReq :
          (/\ r \in DOMAIN reqs'
           /\ reqs'[r].token # 0
           /\ (r \notin DOMAIN reqs \/ reqs[r].token = 0)) =>
              /\ playTokenRef' = playTokenRef + 1
              /\ reqs'[r].token = playTokenRef'
              /\ timers' \cap timers = {}
              /\ \A t \in timers' : t.token = playTokenRef'
              /\ segmentRef' # None => segmentRef'[1].token = playTokenRef'
              /\ \E i \in DOMAIN calls' :
                    /\ calls'[i] = [op |-> "pause", via |-> "playSegment", by |-> r,
                                    token |-> playTokenRef', el |-> reqs'[r].a]
                    /\ \A k \in 1..(i - 1) : calls'[k].op \notin {"seek", "play"}
              /\ (~audios'[reqs'[r].a].paused) => reqs'[r].outcome = "played"
      ]_vars

\* a second playSegment call arrived while the first interval was playing:
\* the first timer is gone, the segment record is empty, the audio is paused
C14_Witness ==
    /\ Len(reqs) = 2
    /\ reqs[1].outcome = "played" /\ reqs[1].timer = "cleared"
    /\ reqs[2].token = 2 /\ reqs[2].pc = "meta"
    /\ timers = {} /\ segmentRef = None
    /\ audios[reqs[2].a].paused
    /\ \E i \in DOMAIN calls : calls[i].op = "pause" /\ calls[i].by = 2

C16_SeekSegmentPlayArmIsAtomic ==
    /\ \A i \in DOMAIN calls :
          calls[i].via = "doSeekPlay" /\ calls[i].op # "seek" =>
              \E k \in 1..(i - 1) : calls[k].op = "seek"
    /\ \A i \in DOMAIN calls :
          calls[i].op = "seek" =>
              LET r == calls[i].by
                  q == reqs[r]
              IN  /\ Len(calls) = i + 3
                  /\ <<calls[i + 1].op, calls[i + 2].op, calls[i + 3].op>>
                        = <<"segment", "play", "arm">>
                  /\ \A k \in i..(i + 3) : calls[k].by = r /\ calls[k].el = q.a
                  /\ q.token = playTokenRef
                  /\ audios[q.a].currentTime = q.startSec
                  /\ ~audios[q.a].paused
                  /\ segmentRef = Some([endSec |-> q.endSec, token |-> q.token])
                  /\ Cardinality(timers) = 1
                  /\ \A t \in timers : t.rid = r /\ segmentTimerRef = Some(t.id)

\* a request started playback while another request was suspended
C16_Witness ==
    /\ \E i \in DOMAIN calls : calls[i].op = "seek"
    /\ \E r \in DOMAIN reqs : reqs[r].pc \in {"fetch", "meta"}
    /\ Cardinality(timers) = 1

\* C17: the delay of every armed stop timer is the interval length in
\* milliseconds, rounded, plus 60.
C17_TimerDelayIsLengthPlusSlack ==
    \A t \in timers :
        t.ms = ((reqs[t.rid].endSec - reqs[t.rid].startSec + 500) \div 1000) + SlackMs

\* the shortest interval playWord can ask for: 20 ms, where the delay is 80
C17_Witness ==
    \E t \in timers :
        /\ reqs[t.rid].endSec - reqs[t.rid].startSec = SegFloorUs
        /\ t.ms = MinTimerMs

\* C18: when a stop timer fires and its token is the one of the segment
\* record, the element is paused and the segment record and the timer handle
\* are cleared; otherwise the firing leaves the scheduler as it was.
C18_TimerFiringStopsOrDoesNothing ==
    [][\A t \in timers :
          (/\ t \notin timers'
           /\ reqs[t.rid].timer = "armed"
           /\ reqs'[t.rid].timer \in {"fired", "inert"}) =>
              IF segmentRef # None /\ segmentRef[1].token = t.token
              THEN /\ t.token = playTokenRef
                   /\ audios'[t.el].paused
                   /\ segmentRef' = None
                   /\ segmentTimerRef' = None
                   /\ timers' = {}
                   /\ playTokenRef' = playTokenRef
              ELSE UNCHANGED <<audios, segmentRef, segmentTimerRef, playTokenRef>>
      ]_vars

\* the stop timer of the current request fired and the scheduler is idle
C18_Witness ==
    /\ \E i \in DOMAIN calls :
          /\ calls[i].via = "timer"
          /\ reqs[calls[i].by].timer = "fired"
          /\ reqs[calls[i].by].token = playTokenRef
          /\ audios[calls[i].el].paused
    /\ segmentRef = None /\ segmentTimerRef = None /\ timers = {}

\* C19: the step in which a playWord call for a word without timing ends
\* leaves the generation token, the segment record, the timer handle, the
\* pending stop timers and every audio element (source, position, paused)
\* as they were.
C19_UntimedWordChangesNothing ==
    [][\A r \in 1..MaxReq :
          (/\ r \in DOMAIN reqs'
           /\ reqs'[r].w = None
           /\ reqs'[r].outcome = "notiming"
           /\ (r \notin DOMAIN reqs \/ reqs[r].outcome = "none")) =>
              UNCHANGED <<playTokenRef, segmentRef, segmentTimerRef, timers, audios>>
      ]_vars

\* a playSegment call was made when no audio element was mounted
CalledWithoutElement == \E r \in DOMAIN reqs : reqs[r].outcome = "noaudio"

\* C11: once the request holding token k has started playback, then, unless
\* another playSegment call is made, the audio is eventually paused and the
\* segment record cleared.
C11_IntervalEventuallyStops ==
    \A k \in 1..MaxReq :
        (segmentRef # None /\ segmentRef[1].token = k /\ playTokenRef = k)
            ~> \/ playTokenRef # k
               \/ CalledWithoutElement
               \/ (segmentRef = None /\ \A e \in 1..MaxEl : audios[e].paused)

\* first.extent[0] and last.extent[1] of a record whose phone list yields them
FirstExtentStart(r) == r.phone_score_list[1][1].extent[1][1]
LastExtentEnd(r) ==
    LET l == r.phone_score_list[1] IN l[Len(l)].extent[1][2]

\* C21: with numeric first.extent[0] and last.extent[1] the timing is
\* startSec = max(0, 0.01 * first.extent[0]) and
\* endSec = max(startSec + 0.02, 0.01 * last.extent[1]); the interval is at
\* least 20 ms wide and exactly 20 ms when the raw end is at or below
\* startSec + 0.02.
C21_PhoneExtentInterval ==
    (pc = "done" /\ HasPhoneExtent(item)) =>
        LET startSec == IF FirstExtentStart(item) > 0
                        THEN FirstExtentStart(item) * TickUs ELSE 0
            rawEnd   == LastExtentEnd(item) * TickUs
        IN  /\ timing # None
            /\ timing[1].startSec = startSec
            /\ timing[1].endSec >= startSec + FloorUs
            /\ rawEnd <= startSec + FloorUs => timing[1].endSec = startSec + FloorUs
            /\ rawEnd > startSec + FloorUs => timing[1].endSec = rawEnd

\* the raw end lies before the start, and the end was lifted to start + 20 ms
C21_Witness ==
    /\ pc = "done"
    /\ HasPhoneExtent(item)
    /\ LastExtentEnd(item) < FirstExtentStart(item)
    /\ timing[1].endSec = timing[1].startSec + FloorUs

\* the raw start and end bounds timingFromItem reads
RawStart(r) == CoalesceRaw(r.start_time, r.start)
RawEnd(r)   == CoalesceRaw(r.end_time, r.end)

\* a number, or a string that holds one
IsNumeric(x) == x.t \in {"num", "str"}

\* seconds (in microseconds) of a numeric raw value under the unit heuristic
SecondsOf(x) ==
    IF x.v > 1000 * 1000 THEN x.v ELSE x.v * 1000

\* C22: a numeric bound above 1000 is taken as milliseconds and divided by
\* 1000, any other is kept as seconds, numbers and numeric strings alike;
\* (1500, 2300) and (1.5, 2.3) both resolve to (1.5 s, 2.3 s).
C22_UnitHeuristic ==
    (pc = "done" /\ ~HasPhoneExtent(item)) =>
        /\ (IsNumeric(RawStart(item)) /\ IsNumeric(RawEnd(item))) =>
              /\ timing # None
              /\ timing[1].startSec = Max(0, SecondsOf(RawStart(item)))
              /\ timing[1].endSec = Max(0, SecondsOf(RawEnd(item)))
        /\ (RawStart(item) = Num(1500000) /\ RawEnd(item) = NumStr(2300000)) =>
              timing = Some([startSec |-> 1500000, endSec |-> 2300000])
        /\ (RawStart(item) = Num(1500) /\ RawEnd(item) = Num(2300)) =>
              timing = Some([startSec |-> 1500000, endSec |-> 2300000])

\* start 1500 (a number) and end "2300" (a string), both in milliseconds
C22_Witness ==
    /\ pc = "done"
    /\ ~HasPhoneExtent(item)
    /\ RawStart(item) = Num(1500000)
    /\ RawEnd(item) = NumStr(2300000)
    /\ timing = Some([startSec |-> 1500000, endSec |-> 2300000])

\* absent, NaN, infinite, or a string that holds no number
Unusable(x) == x.t \in {"nullish", "nan", "inf", "badstr", "emptystr"}

\* C23: timingFromItem reports no timing whenever the start or the end bound
\* is absent or not a finite number (NaN, infinite, a string without a number).
C23_NonFiniteBoundGivesNoTiming ==
    (/\ pc = "done"
     /\ ~HasPhoneExtent(item)
     /\ (Unusable(RawStart(item)) \/ Unusable(RawEnd(item)))) => timing = None

\* number of apostrophes in t
AposCount(t) == Cardinality({i \in DOMAIN t : t[i] \in Apos})

\* t is what its kind allows
WellFormedToken(t) ==
    /\ Len(t.text) >= 1
    /\ t.kind \in {"space", "word", "punct"}
    /\ t.kind = "space" => \A i \in DOMAIN t.text : IsSpace(t.text[i])
    /\ t.kind = "punct" =>
          \A i \in DOMAIN t.text : ~IsSpace(t.text[i]) /\ ~IsAlnum(t.text[i])
    /\ t.kind = "word" =>
          /\ \A i \in DOMAIN t.text : IsAlnum(t.text[i]) \/ t.text[i] \in Apos
          /\ AposCount(t.text) <= 1
          /\ IsAlnum(t.text[1])
          /\ IsAlnum(t.text[Len(t.text)])

\* C24: the page tokenizer yields maximal runs of three exclusive kinds: no
\* two neighbours share a kind, a space token is whitespace only, a punct
\* token has neither whitespace nor letters/digits, a word token is letters
\* and digits with at most one apostrophe, which is neither first nor last.
C24_TokensAreMaximalRunsOfOneKind ==
    pc \in {"page", "done"} =>
        /\ \A i \in DOMAIN tokens : WellFormedToken(tokens[i])
        /\ \A i \in 1..(Len(tokens) - 1) : tokens[i].kind # tokens[i + 1].kind

\* a contraction directly followed by another apostrophe: "a'a'" is the word
\* a'a and the punct '
C24_Witness ==
    /\ pc = "page"
    /\ Len(tokens) = 2
    /\ tokens[1].kind = "word" /\ AposCount(tokens[1].text) = 1
    /\ tokens[2].kind = "punct" /\ AposCount(tokens[2].text) = 1

\* the iterations of the pass over the present input, and its words
Steps == AlignSteps(usedText, speechace)
TheWords == wordsInText(usedText)
\* the pass has just ended, by returning or by throwing
PassEnded == pc \in {"built", "threw"}

\* the positions of the window at cursor j whose record matches word i
MatchSet(list, words, j, i) ==
    LET norm == normalizeWord(words[i])
    IN  {k \in j..(Min(Len(list), j + Lookahead) - 1) :
            LET candidateWord == normalizeWord(list[k + 1].word)
            IN  candidateWord # << >> /\ candidateWord = norm}

\* C25: for each word the pick lies within the four positions from the
\* cursor; when records of that window match, the lowest matching position p
\* is picked, its record is attached, the cursor becomes p + 1, and no later
\* word is attached to a position at or below p.
C25_FirstMatchInWindowIsPicked ==
    LET steps == Steps
        list == TheList
        words == TheWords
    IN
        PassEnded =>
            \A i \in DOMAIN steps :
                LET st == steps[i]
                    ms == MatchSet(list, words, st.j, i)
                IN  /\ st.pickedIndex \in st.j..(st.j + Lookahead - 1)
                    /\ ms # {} =>
                          /\ st.pickedIndex \in ms
                          /\ \A m \in ms : st.pickedIndex <= m
                          /\ st.jNext = st.pickedIndex + 1
                          /\ ~st.threw
                          /\ Built => FromRecord(wordDisplays[i], list[st.pickedIndex + 1])
                          /\ \A k \in DOMAIN steps :
                                k > i => steps[k].pickedIndex > st.pickedIndex

\* one word found no match although a matching record lay beyond the window,
\* and a later word matched ahead of the cursor, skipping records
C25_Witness ==
    LET steps == Steps
        list == TheList
        words == TheWords
    IN
        /\ Built
        /\ \E i \in DOMAIN steps :
              /\ MatchSet(list, words, steps[i].j, i) = {}
              /\ \E k \in (steps[i].j + Lookahead)..(Len(list) - 1) :
                    normalizeWord(list[k + 1].word) = normalizeWord(words[i])
        /\ \E i \in DOMAIN steps :
              /\ MatchSet(list, words, steps[i].j, i) # {}
              /\ steps[i].pickedIndex > steps[i].j

\* C26: every word gets its iteration; when no record of the window matches,
\* the record at the cursor j is attached if there is one, nothing is
\* attached otherwise, and the cursor becomes j + 1 either way.
C26_NoMatchFallsBackToCursor ==
    LET steps == Steps
        list == TheList
        words == TheWords
    IN
        (PassEnded /\ Len(list) > 0 /\ ~IsBlank(usedText)) =>
            \A i \in DOMAIN words :
                /\ i <= Len(steps)
                /\ ~steps[i].threw
                /\ MatchSet(list, words, steps[i].j, i) = {} =>
                      /\ steps[i].pickedIndex = steps[i].j
                      /\ steps[i].jNext = steps[i].j + 1
                      /\ steps[i].j < Len(list) =>
                            FromRecord(steps[i].display, list[steps[i].j + 1])
                      /\ steps[i].j >= Len(list) => NullDisplay(steps[i].display)

\* C27: from one word to the next the cursor never decreases, each word's
\* pick lies at or above its cursor, and the cursor of every later word lies
\* above the position picked for an earlier one.
C27_CursorIsMonotonic ==
    LET steps == Steps
        list == TheList
        words == TheWords
    IN
        PassEnded =>
            \A i, k \in DOMAIN steps :
                /\ steps[i].pickedIndex >= steps[i].j
                /\ steps[i].jNext >= steps[i].j
                /\ k = i + 1 => steps[k].j = steps[i].jNext
                /\ k > i => /\ steps[k].j >= steps[i].j
                            /\ steps[k].j > steps[i].pickedIndex

\* three words, the cursor moved by more than one position at least once
C27_Witness ==
    LET steps == Steps
        list == TheList
        words == TheWords
    IN
        /\ Built
        /\ Len(steps) = 3
        /\ steps[3].j > 2
        /\ steps[3].j < Len(list)

\* C29: the positions of the records attached in one pass increase strictly
\* in text order, so no record is attached to two words.
C29_AttachedPositionsIncrease ==
    LET steps == Steps
        list == TheList
        words == TheWords
    IN
        PassEnded =>
            \A i, k \in DOMAIN steps :
                (i < k /\ steps[i].pickedIndex < Len(list)
                       /\ steps[k].pickedIndex < Len(list))
                    => steps[i].pickedIndex < steps[k].pickedIndex

\* the same word three times against a list that repeats it: each
\* occurrence got a record of its own, one of them by the fallback
C29_Witness ==
    LET steps == Steps
        list == TheList
        words == TheWords
    IN
        /\ pc = "built"
        /\ Len(steps) = 3
        /\ normalizeWord(words[1]) = normalizeWord(words[2])
        /\ normalizeWord(words[2]) = normalizeWord(words[3])
        /\ \A i \in 1..3 : steps[i].pickedIndex < Len(list)
        /\ \E i \in 1..3 : MatchSet(list, words, steps[i].j, i) = {}
        /\ \E i \in 1..3 : MatchSet(list, words, steps[i].j, i) # {}


\* C28: whenever a segment record exists its token is the current generation
\* token, so the stop timer's check (record token against the timer's token)
\* and the timeupdate handler's check (generation token against the record
\* token) give the same answer for every pending stop timer.
C28_SegmentTokenIsCurrent ==
    segmentRef # None =>
        /\ segmentRef[1].token = playTokenRef
        /\ \A t \in timers :
              (segmentRef[1].token = t.token) <=> (playTokenRef = segmentRef[1].token)

\* a segment record of the second request while the first, resumed after it,
\* was turned away by the cancellation check
C28_Witness ==
    /\ segmentRef # None
    /\ segmentRef[1].token = 2
    /\ playTokenRef = 2
    /\ Len(reqs) = 2
    /\ reqs[1].outcome = "stale"
    /\ reqs[1].waited
    /\ \E t \in timers : t.token = 2


\* C30: after playback is stopped from outside the scheduler (resetRunState,
\* or toggleTts starting the sample voice), no playback request issued before
\* that stop seeks or starts playing the audio, a request still waiting for
\* the audio url or for metadata included.
C30_StoppedRequestStaysSilent ==
    \A i \in DOMAIN calls :
        (calls[i].by # 0 /\ calls[i].op \in {"seek", "play"})
            => reqs[calls[i].by].stop = "none"

=============================================================================
